---------------------------- MODULE Spec2Model ----------------------------
(***************************************************************************)
(* Model of servers/weather_server.py: a FastMCP server object, the one    *)
(* tool get_weather registered on it by the @mcp.tool() decorator, and the *)
(* entry point that serves over SSE when the file is run as the main       *)
(* program.                                                                *)
(*                                                                         *)
(* A Python str is modelled as a sequence of code points; a code point is  *)
(* written as a one-character string, or by its U+ name when it is not     *)
(* ASCII.  len() is Len, + and f-string substitution are \o.               *)
(***************************************************************************)
EXTENDS Naturals, Sequences, FiniteSets

\* Longest location argument the requests carry.
MaxLen == 2

\* Number of requests that can be in flight at the same time.
MaxReq == 2

\* Code points of the location arguments: a space and an upper-case
\* non-ASCII letter (LATIN CAPITAL LETTER E WITH ACUTE).
Alphabet == {" ", "U+00C9"}

\* Every str of at most MaxLen code points over Alphabet, "" included.
Locations == UNION {[1..n -> Alphabet] : n \in 0..MaxLen}

Requests == 1..MaxReq

\* The literal text of the f-string of line 12, up to the {location} field.
Prefix == <<"I", "t", "'", "s", " ", "a", "l", "w", "a", "y", "s", " ",
            "s", "u", "n", "n", "y", " ", "i", "n", " ">>

VARIABLES
    pc,             \* position in the module body of weather_server.py
    isMain,         \* __name__ == "__main__"
    registry,       \* mcp's tools: tool name -> handler bound to it
    registrations,  \* how many times the @mcp.tool() decorator has run
    transport,      \* the transport mcp.run was started with, "none" before
    inv             \* per request: the ToolInvocation and its ToolResult

vars == <<pc, isMain, registry, registrations, transport, inv>>

NoOutcome == [kind |-> "none", value |-> <<>>]

Idle == [state |-> "idle", location |-> <<>>, outcome |-> NoOutcome]

----------------------------------------------------------------------------
(* String helpers used by the properties and the mutants.                  *)

IsSuffix(s, t) ==
    /\ Len(s) <= Len(t)
    /\ \A i \in 1..Len(s) : s[i] = t[Len(t) - Len(s) + i]

Contains(t, s) ==
    \E k \in 0..(Len(t) - Len(s)) : \A i \in 1..Len(s) : t[k + i] = s[i]

IsSpace(c) == c = " "

\* str.strip()
RECURSIVE Strip(_)
Strip(s) ==
    IF s = <<>> THEN s
    ELSE IF IsSpace(Head(s)) THEN Strip(Tail(s))
    ELSE IF IsSpace(s[Len(s)]) THEN Strip(SubSeq(s, 1, Len(s) - 1))
    ELSE s

\* str.lower()
Lower(s) == [i \in 1..Len(s) |-> IF s[i] = "U+00C9" THEN "U+00E9" ELSE s[i]]

\* s.encode("unicode_escape").decode("ascii")
RECURSIVE Escape(_)
Escape(s) ==
    IF s = <<>> THEN s
    ELSE (IF Head(s) = "U+00C9" THEN <<"\\", "x", "c", "9">> ELSE <<Head(s)>>)
         \o Escape(Tail(s))

InFlight(r) == inv[r].state # "idle"

Returned(r) == inv[r].state = "returned"

----------------------------------------------------------------------------
(* The handler.                                                            *)

\* Mutant: the location is stripped before it is substituted.
get_weather_strip(location) ==
    [kind |-> "return", value |-> Prefix \o Strip(location)]

\* Mutant: the location's non-ASCII code points are escaped before it is
\* substituted.
get_weather_escape(location) ==
    [kind |-> "return", value |-> Prefix \o Escape(location)]

\* Mutant: the location is lower-cased before it is substituted.
get_weather_lower(location) ==
    [kind |-> "return", value |-> Prefix \o Lower(location)]

\* Mutant: the reply of an earlier invocation that has not been collected
\* yet is reused (a module-level cache of the last reply).
get_weather_cached(location) ==
    IF \E q \in Requests : Returned(q)
    THEN inv[CHOOSE q \in Requests : Returned(q)].outcome
    ELSE [kind |-> "return", value |-> Prefix \o location]

\* Mutant: the reply carries a mark while other replies are uncollected
\* (a module-level call counter leaking into the text).
get_weather_counting(location) ==
    [kind |-> "return",
     value |-> Prefix \o location
               \o (IF \E q \in Requests : Returned(q) THEN <<"#">> ELSE <<>>)]

\* Mutant: an empty location is rejected with a ValueError.
get_weather_rejecting(location) ==
    IF location = <<>>
    THEN [kind |-> "raise", value |-> <<>>]
    ELSE [kind |-> "return", value |-> Prefix \o location]

\* async def get_weather(location: str) -> str:
\*     return f"It's always sunny in {location}"
get_weather(location) ==
    [kind |-> "return", value |-> Prefix \o location]

----------------------------------------------------------------------------
(* The module body.                                                        *)

Init ==
    /\ pc = "start"
    /\ isMain \in BOOLEAN
    /\ registry = << >>
    /\ registrations = 0
    /\ transport = "none"
    /\ inv = [r \in Requests |-> Idle]

\* mcp = FastMCP("Weather")
CreateServer ==
    /\ pc = "start"
    /\ pc' = "created"
    /\ registry' = << >>
    /\ UNCHANGED <<isMain, registrations, transport, inv>>

\* Mutant: the decorator is never applied; the function is only defined.
RegisterToolSkipped ==
    /\ pc = "created"
    /\ pc' = "defined"
    /\ UNCHANGED <<isMain, registry, registrations, transport, inv>>

\* @mcp.tool() applied to get_weather
RegisterTool ==
    /\ pc = "created"
    /\ pc' = "defined"
    /\ registry' = [n \in (DOMAIN registry) \cup {"get_weather"} |->
                      IF n = "get_weather" THEN "get_weather" ELSE registry[n]]
    /\ registrations' = registrations + 1
    /\ UNCHANGED <<isMain, transport, inv>>

\* Mutant: mcp.run is called without the __name__ guard.
RunMainUnguarded ==
    /\ pc = "defined"
    /\ pc' = "serving"
    /\ transport' = "sse"
    /\ UNCHANGED <<isMain, registry, registrations, inv>>

\* if __name__ == "__main__": mcp.run(transport="sse")
RunMain ==
    /\ pc = "defined"
    /\ isMain
    /\ pc' = "serving"
    /\ transport' = "sse"
    /\ UNCHANGED <<isMain, registry, registrations, inv>>

\* The guard of line 14 is false: the module body ends, the import returns.
EndImport ==
    /\ pc = "defined"
    /\ ~isMain
    /\ pc' = "imported"
    /\ UNCHANGED <<isMain, registry, registrations, transport, inv>>

----------------------------------------------------------------------------
(* Serving.                                                                *)

\* The host runtime receives a call of the tool get_weather, looks the tool
\* up and calls the handler: the call of an async def creates the coroutine,
\* which has not run yet.
Dispatch(r, L) ==
    /\ pc = "serving"
    /\ "get_weather" \in DOMAIN registry
    /\ inv[r].state = "idle"
    /\ inv' = [inv EXCEPT ![r] =
                 [state |-> "pending", location |-> L, outcome |-> NoOutcome]]
    /\ UNCHANGED <<pc, isMain, registry, registrations, transport>>

\* Mutant: the handler registers itself under a second name when it runs.
RunReregisters(r) ==
    /\ pc = "serving"
    /\ inv[r].state = "pending"
    /\ inv' = [inv EXCEPT ![r].state = "returned",
                          ![r].outcome = get_weather(inv[r].location)]
    /\ registry' = [n \in (DOMAIN registry) \cup {"get_weather_2"} |->
                      "get_weather"]
    /\ UNCHANGED <<pc, isMain, registrations, transport>>

\* Mutant: the handler awaits the other invocations before it returns.
RunAwaitsOthers(r) ==
    /\ pc = "serving"
    /\ inv[r].state = "pending"
    /\ \A q \in Requests \ {r} : inv[q].state # "pending"
    /\ inv' = [inv EXCEPT ![r].state = "returned",
                          ![r].outcome = get_weather(inv[r].location)]
    /\ UNCHANGED <<pc, isMain, registry, registrations, transport>>

\* The event loop runs the coroutine: the body has no await, so it runs from
\* its first statement to its return in one step.
Run(r) ==
    /\ pc = "serving"
    /\ inv[r].state = "pending"
    /\ inv' = [inv EXCEPT ![r].state = "returned",
                          ![r].outcome = get_weather(inv[r].location)]
    /\ UNCHANGED <<pc, isMain, registry, registrations, transport>>

\* The host runtime sends the result and discards the invocation.
Respond(r) ==
    /\ pc = "serving"
    /\ inv[r].state = "returned"
    /\ inv' = [inv EXCEPT ![r] = Idle]
    /\ UNCHANGED <<pc, isMain, registry, registrations, transport>>

Next ==
    \/ CreateServer
    \/ RegisterTool
    \/ RunMain
    \/ EndImport
    \/ \E r \in Requests, L \in Locations : Dispatch(r, L)
    \/ \E r \in Requests : Run(r)
    \/ \E r \in Requests : Respond(r)

Spec == Init /\ [][Next]_vars

\* The event loop runs every coroutine that is ready to run.
FairSpec == Init /\ [][Next]_vars /\ \A r \in Requests : WF_vars(Run(r))

TypeOK ==
    /\ pc \in {"start", "created", "defined", "serving", "imported"}
    /\ isMain \in BOOLEAN
    /\ DOMAIN registry \subseteq {"get_weather"}
    /\ registrations \in 0..1
    /\ transport \in {"none", "sse"}
    /\ \A r \in Requests :
         /\ inv[r].state \in {"idle", "pending", "returned"}
         /\ inv[r].location \in Locations

----------------------------------------------------------------------------
(* Properties.                                                             *)

Result(r) == inv[r].outcome.value

\* C1: for every location L, get_weather(L) returns exactly "It's always
\* sunny in " followed by L, with L unchanged (not escaped, not trimmed, case
\* kept); for L = "" that is the 21 code points of the prefix alone.
C1_ExactConcatenation ==
    \A r \in Requests :
        Returned(r) =>
            /\ Result(r) = Prefix \o inv[r].location
            /\ SubSeq(Result(r), Len(Prefix) + 1, Len(Result(r))) = inv[r].location
            /\ inv[r].location = <<>> =>
                 Result(r) = <<"I", "t", "'", "s", " ", "a", "l", "w", "a",
                               "y", "s", " ", "s", "u", "n", "n", "y", " ",
                               "i", "n", " ">>

\* Two invocations have returned, one for "" and one for a location that
\* ends with a space and holds a non-ASCII upper-case letter.
C1_Witness ==
    \E r, q \in Requests :
        /\ Returned(r) /\ inv[r].location = <<>>
        /\ Returned(q) /\ inv[q].location = <<"U+00C9", " ">>

\* C2 as stated: the returned string is len(L) + 22 long.
C2_LengthPlus22 ==
    \A r \in Requests :
        Returned(r) => Len(Result(r)) = Len(inv[r].location) + 22

\* C2 as amended: for every location L the returned string is len(L) + 21
\* long (the prefix "It's always sunny in " has 21 code points).
C2_LengthPlus21 ==
    \A r \in Requests :
        Returned(r) => Len(Result(r)) = Len(inv[r].location) + 21

\* An invocation has returned for a location of the greatest length, with a
\* non-ASCII code point in it.
C2_Witness ==
    \E r \in Requests :
        /\ Returned(r)
        /\ Len(inv[r].location) = MaxLen
        /\ \E i \in 1..MaxLen : inv[r].location[i] = "U+00C9"

\* C3: any two invocations with the same location return the same string,
\* whatever else was invoked before or between them.
C3_Deterministic ==
    \A r, q \in Requests :
        (Returned(r) /\ Returned(q) /\ inv[r].location = inv[q].location)
            => inv[r].outcome = inv[q].outcome

\* Two different requests with the same non-empty location have both
\* returned.
C3_Witness ==
    \E r, q \in Requests :
        /\ r # q
        /\ Returned(r) /\ Returned(q)
        /\ inv[r].location = inv[q].location
        /\ inv[r].location # <<>>

\* C4: every result is non-empty and has the supplied location as a
\* substring, in fact as its suffix, the empty location included.
C4_NonEmptyEchoesLocation ==
    \A r \in Requests :
        Returned(r) =>
            /\ Result(r) # <<>>
            /\ Contains(Result(r), inv[r].location)
            /\ IsSuffix(inv[r].location, Result(r))

\* An invocation has returned for the empty location while another has
\* returned for a location with the upper-case letter.
C4_Witness ==
    \E r, q \in Requests :
        /\ Returned(r) /\ inv[r].location = <<>> /\ Len(Result(r)) > 0
        /\ Returned(q) /\ inv[q].location = <<"U+00C9">>

\* C5: a step in which the handler runs changes nothing but that
\* invocation's own result: the registry, the number of registrations, the
\* position of the module body, the transport, the argument and every other
\* invocation are the same after it as before.
C5_NoSideEffects ==
    [][\A r \in Requests :
         (inv[r].state = "pending" /\ inv'[r].state = "returned") =>
            /\ registry' = registry
            /\ registrations' = registrations
            /\ pc' = pc
            /\ isMain' = isMain
            /\ transport' = transport
            /\ inv'[r].location = inv[r].location
            /\ \A q \in Requests \ {r} : inv'[q] = inv[q]]_vars

\* The handler has run for one request while another is still pending, and
\* the registry holds get_weather alone.
C5_Witness ==
    \E r, q \in Requests :
        /\ Returned(r)
        /\ inv[q].state = "pending"
        /\ DOMAIN registry = {"get_weather"}
        /\ registrations = 1

\* C6: get_weather is registered exactly once and before serving starts: no
\* request is in flight unless get_weather is registered, and from the start
\* of serving on the registry is exactly {get_weather} and never changes.
C6_RegisteredOnceBeforeServing ==
    /\ [](registrations <= 1)
    /\ [](pc = "serving" =>
            /\ registrations = 1
            /\ DOMAIN registry = {"get_weather"}
            /\ registry["get_weather"] = "get_weather")
    /\ [](\A r \in Requests : InFlight(r) => "get_weather" \in DOMAIN registry)
    /\ [][pc = "serving" =>
            /\ registry' = registry
            /\ registrations' = registrations]_vars

\* Serving has started and a request has been dispatched and answered by the
\* handler.
C6_Witness ==
    /\ pc = "serving"
    /\ "get_weather" \in DOMAIN registry
    /\ \E r \in Requests : Returned(r)

\* C7 as stated: with several invocations in flight, each result is the
\* prefix followed by its own location and does not contain the location of
\* another request in flight.
C7_NeverContainsOthersLocation ==
    \A r, q \in Requests :
        (r # q /\ Returned(r) /\ InFlight(q)) =>
            /\ Result(r) = Prefix \o inv[r].location
            /\ ~Contains(Result(r), inv[q].location)

\* C7 as amended: with several invocations in flight, each result is the
\* prefix followed by its own location, and it contains the location of
\* another request in flight only where the prefix followed by its own
\* location contains it.
C7_OwnLocationOnly ==
    \A r, q \in Requests :
        (r # q /\ Returned(r) /\ InFlight(q)) =>
            /\ Result(r) = Prefix \o inv[r].location
            /\ Contains(Result(r), inv[q].location)
                 => Contains(Prefix \o inv[r].location, inv[q].location)

\* Two requests with different non-empty locations are in flight, both
\* answered, and neither result holds the other's location.
C7_Witness ==
    \E r, q \in Requests :
        /\ r # q
        /\ Returned(r) /\ Returned(q)
        /\ inv[r].location = <<"U+00C9">>
        /\ inv[q].location = <<" ", " ">>
        /\ ~Contains(Result(r), inv[q].location)
        /\ ~Contains(Result(q), inv[r].location)

\* C8: an invocation never ends with an error: whatever the location, its
\* outcome is a normal return of a string.
C8_NeverRaises ==
    \A r \in Requests :
        /\ inv[r].outcome.kind # "raise"
        /\ Returned(r) => inv[r].outcome.kind = "return"

\* Invocations have returned normally for the empty location and for a
\* location of two spaces.
C8_Witness ==
    \E r, q \in Requests :
        /\ Returned(r) /\ inv[r].location = <<>>
        /\ inv[r].outcome.kind = "return"
        /\ Returned(q) /\ inv[q].location = <<" ", " ">>
        /\ inv[q].outcome.kind = "return"

\* C9: run as the main program, the module starts serving with the SSE
\* transport and never leaves serving by a step of its own; imported, it
\* registers the tool and never starts serving.
C9_ServesOnlyAsMain ==
    /\ [](pc = "serving" => isMain /\ transport = "sse")
    /\ [](~isMain => pc # "serving" /\ transport = "none")
    /\ [](pc = "imported" => ~isMain /\ "get_weather" \in DOMAIN registry)
    /\ [][pc = "serving" => pc' = "serving"]_vars
    /\ [][pc = "imported" => pc' = "imported"]_vars

\* The main program is serving over SSE and has gone through a request.
C9_Witness ==
    /\ isMain
    /\ pc = "serving"
    /\ transport = "sse"
    /\ \E r \in Requests : Returned(r) /\ inv[r].location = <<" ">>

\* C10: every invocation that has been called returns: the handler can run
\* whenever the invocation is pending, whatever the other invocations are
\* doing, it goes from pending to returned in one step, and under the event
\* loop's scheduling every pending invocation eventually returns.
C10_EveryInvocationReturns ==
    /\ [](\A r \in Requests : inv[r].state = "pending" => ENABLED Run(r))
    /\ [][\A r \in Requests :
            (inv[r].state = "pending" /\ inv'[r].state # "pending")
                => inv'[r].state = "returned"]_vars
    /\ \A r \in Requests : (inv[r].state = "pending") ~> Returned(r)

\* Every request is pending at the same time.
C10_Witness ==
    \A r \in Requests : inv[r].state = "pending" /\ inv[r].location # <<>>

=============================================================================
